---------------------------- MODULE Spec2Model ----------------------------
(***************************************************************************)
(* A model of src/llm_inference.py: the InferenceArguments dataclass, the  *)
(* LLM constructor with its device memory planner (set_max_memory), the    *)
(* generation pipeline (generate_from_model) and the output reshaper       *)
(* (reshape_model_outputs).                                                *)
(*                                                                         *)
(* Three specifications share the module:                                  *)
(*   Spec          argument construction and LLM.__init__                  *)
(*   SpecGenerate  calls of generate_from_model on a constructed LLM       *)
(*   SpecReshape   the static method reshape_model_outputs on its own      *)
(*                                                                         *)
(* Python floats are modelled as IEEE 754 doubles, m * 2^e with a 53-bit    *)
(* m kept as a big number: parsing a decimal, dividing and multiplying     *)
(* round to the nearest double, ties to even, as Python does.  A device's  *)
(* total memory is counted in whole MiB.                                   *)
(***************************************************************************)
EXTENDS Integers, Sequences, FiniteSets

VARIABLES
    pc,             \* position in the __main__ / LLM.__init__ sequence
    cli,            \* the keyword values handed to InferenceArguments
    args,           \* the InferenceArguments instance (self.args)
    n_gpus,         \* what torch.cuda.device_count() reports
    total_memory,   \* torch.cuda.get_device_properties(0).total_memory, in MiB
    max_memory,     \* the value set_max_memory returned
    queried,        \* whether get_device_properties(0) has been called
    model,          \* self.model
    tokenizer,      \* self.tokenizer
    g_pc,           \* position inside generate_from_model
    inputs,         \* the batch of input strings of the current call
    encoded_inputs, \* the tokenizer's output: its shape
    model_outputs,  \* the rows generate returned, then the decoded strings
    calls,          \* the backend and helper calls made by the current call
    g_ret,          \* what the current call returned or raised
    rs_pc,          \* position of the stand-alone reshape call
    rs_outputs,     \* its argument outputs
    rs_batch,       \* its argument input_batch_size
    rs_ret          \* what it returned or raised

initVars == <<pc, cli, args, n_gpus, total_memory, max_memory, queried, model, tokenizer>>
genVars == <<g_pc, inputs, encoded_inputs, model_outputs, calls, g_ret>>
rsVars == <<rs_pc, rs_outputs, rs_batch, rs_ret>>
vars == <<initVars, genVars, rsVars>>

-----------------------------------------------------------------------------
(* Bounds of the model *)

\* longest flat list of outputs handed to the reshaper
MaxOutputs == 6
\* largest input_batch_size, and longest batch of inputs
MaxBatch == 4
\* largest num_return_sequences and num_beams supplied
MaxReturn == 2
\* largest number of visible devices
MaxGpus == 3
\* largest max_memory supplied, in tenths
MaxFracNum == 12
\* small device totals, in GiB
MaxGiB == 3

\* the decoded strings the backend can produce
Strings == {"a", "b"}

Min(a, b) == IF a <= b THEN a ELSE b

RECURSIVE SeqsUpTo(_, _)
\* all sequences over S of length at most n
SeqsUpTo(S, n) ==
    IF n = 0 THEN {<<>>}
    ELSE LET shorter == SeqsUpTo(S, n - 1)
         IN  shorter \cup {Append(s, x) : s \in {t \in shorter : Len(t) = n - 1}, x \in S}

RECURSIVE Flatten(_)
\* the concatenation of a list of lists
Flatten(groups) ==
    IF Len(groups) = 0 THEN <<>> ELSE Head(groups) \o Flatten(Tail(groups))

-----------------------------------------------------------------------------
(* reshape_model_outputs, lines 294-316 *)

\* range(0, stop, step) for step > 0, as the list of its values
PyRange(stop, step) ==
    LET n == IF stop <= 0 THEN 0 ELSE (stop + step - 1) \div step
    IN  [j \in 1..n |-> (j - 1) * step]

\* the slice s[i:j] of a list, 0 <= i: Python clips j to len(s)
PySlice(s, i, j) == SubSeq(s, i + 1, Min(j, Len(s)))

\* the slice taken one element too long
ChunksOffByOne(outputs, return_seqs_per_input) ==
    LET starts == PyRange(Len(outputs), return_seqs_per_input)
    IN  [j \in 1..Len(starts) |->
            PySlice(outputs, starts[j], starts[j] + return_seqs_per_input + 1)]

\* the outputs dealt out in turn, one to each chunk, instead of cut consecutively
ChunksStrided(outputs, return_seqs_per_input) ==
    LET n == Len(PyRange(Len(outputs), return_seqs_per_input))
    IN  [j \in 1..n |->
            [m \in 1..((Len(outputs) - j) \div n + 1) |-> outputs[(m - 1) * n + j]]]

\* line 308: [outputs[i:i+k] for i in range(0, num_return_sequences, k)], k > 0
Chunks(outputs, return_seqs_per_input) ==
    LET starts == PyRange(Len(outputs), return_seqs_per_input)
    IN  [j \in 1..Len(starts) |->
            PySlice(outputs, starts[j], starts[j] + return_seqs_per_input)]

Return(v) == [kind |-> "return", value |-> v]

\* an exception: its type, the statement that raised it, the counts its message carries
Raise(type, by, counts) == [kind |-> "raise", type |-> type, raised_by |-> by, counts |-> counts]

\* the reshaper with its chunk-count check (lines 310-311) left out
ReshapeNoCountCheck(outputs, input_batch_size) ==
    LET num_return_sequences == Len(outputs)
    IN  IF input_batch_size = 0
        THEN Raise("ZeroDivisionError", "floordiv", <<>>)
        ELSE LET return_seqs_per_input == num_return_sequences \div input_batch_size
             IN  IF return_seqs_per_input = 0
                 THEN Raise("ValueError", "range", <<>>)
                 ELSE LET packed == Chunks(outputs, return_seqs_per_input)
                      IN  IF Len(packed) = 0
                          THEN Raise("IndexError", "first_chunk", <<>>)
                          ELSE IF Len(packed[1]) # return_seqs_per_input
                          THEN Raise("ValueError", "first_chunk",
                                     <<Len(packed[1]), return_seqs_per_input>>)
                          ELSE Return(packed)

\* lines 301-316, for input_batch_size >= 0
reshape_model_outputs(outputs, input_batch_size) ==
    LET num_return_sequences == Len(outputs)
    IN  IF input_batch_size = 0
        THEN \* line 302: integer division by zero
             Raise("ZeroDivisionError", "floordiv", <<>>)
        ELSE LET return_seqs_per_input == num_return_sequences \div input_batch_size
             IN  IF return_seqs_per_input = 0
                 THEN \* line 308: range() arg 3 must not be zero
                      Raise("ValueError", "range", <<>>)
                 ELSE LET packed == Chunks(outputs, return_seqs_per_input)
                      IN  IF Len(packed) # input_batch_size
                          THEN Raise("ValueError", "chunk_count",
                                     <<Len(packed), input_batch_size>>)
                          ELSE IF Len(packed) = 0
                          THEN \* line 313: outputs[0] of an empty list
                               Raise("IndexError", "first_chunk", <<>>)
                          ELSE IF Len(packed[1]) # return_seqs_per_input
                          THEN Raise("ValueError", "first_chunk",
                                     <<Len(packed[1]), return_seqs_per_input>>)
                          ELSE Return(packed)

-----------------------------------------------------------------------------
(* Python's float arithmetic, as lines 246-253 use it *)

\* a big natural number is the list of its digits in this base, lowest first
Base == 2^15

RECURSIVE BigTrim(_)
\* a without its leading zero limbs
BigTrim(a) ==
    IF a = <<>> THEN <<>>
    ELSE IF a[Len(a)] = 0 THEN BigTrim(SubSeq(a, 1, Len(a) - 1))
    ELSE a

RECURSIVE BigFromInt(_)
BigFromInt(n) == IF n = 0 THEN <<>> ELSE <<n % Base>> \o BigFromInt(n \div Base)

RECURSIVE BigToInt(_)
BigToInt(a) == IF a = <<>> THEN 0 ELSE Head(a) + Base * BigToInt(Tail(a))

RECURSIVE BigMulSmall(_, _, _)
\* a * s + carry, for 0 <= s < Base
BigMulSmall(a, s, carry) ==
    IF a = <<>> THEN BigFromInt(carry)
    ELSE LET x == Head(a) * s + carry
         IN  <<x % Base>> \o BigMulSmall(Tail(a), s, x \div Base)

RECURSIVE BigAdd(_, _, _)
BigAdd(a, b, carry) ==
    IF a = <<>> /\ b = <<>> THEN BigFromInt(carry)
    ELSE LET x == (IF a = <<>> THEN 0 ELSE Head(a)) + (IF b = <<>> THEN 0 ELSE Head(b)) + carry
         IN  <<x % Base>> \o BigAdd(IF a = <<>> THEN <<>> ELSE Tail(a),
                                    IF b = <<>> THEN <<>> ELSE Tail(b), x \div Base)

RECURSIVE BigMulLimbs(_, _)
BigMulLimbs(a, b) ==
    IF b = <<>> THEN <<>>
    ELSE BigAdd(BigMulSmall(a, Head(b), 0), <<0>> \o BigMulLimbs(a, Tail(b)), 0)

BigMul(a, b) == BigTrim(BigMulLimbs(a, b))

RECURSIVE BigDivSmall(_, _)
\* quotient and remainder of a by d, for 0 < d <= Base
BigDivSmall(a, d) ==
    IF a = <<>> THEN [q |-> <<>>, r |-> 0]
    ELSE LET hi == BigDivSmall(Tail(a), d)
             x == hi.r * Base + Head(a)
         IN  [q |-> <<x \div d>> \o hi.q, r |-> x % d]

RECURSIVE BitLength(_)
BitLength(n) == IF n = 0 THEN 0 ELSE 1 + BitLength(n \div 2)

BigBitLength(a) ==
    IF a = <<>> THEN 0 ELSE 15 * (Len(a) - 1) + BitLength(a[Len(a)])

\* a * 2^s
BigShl(a, s) ==
    IF a = <<>> THEN <<>>
    ELSE [i \in 1..(s \div 15) |-> 0] \o BigTrim(BigMulSmall(a, 2^(s % 15), 0))

\* floor(a / 2^s), and whether a one bit was shifted out
BigShr(a, s) ==
    LET k == Min(s \div 15, Len(a))
        dv == BigDivSmall(SubSeq(a, k + 1, Len(a)), 2^(s % 15))
    IN  [q |-> BigTrim(dv.q),
         lost |-> dv.r # 0 \/ \E i \in 1..k : a[i] # 0]

BigOdd(a) == a # <<>> /\ a[1] % 2 = 1

RECURSIVE BigLess(_, _)
BigLess(a, b) ==
    IF Len(a) # Len(b) THEN Len(a) < Len(b)
    ELSE IF a = <<>> THEN FALSE
    ELSE LET n == Len(a)
         IN  a[n] < b[n] \/ (a[n] = b[n] /\ BigLess(SubSeq(a, 1, n - 1), SubSeq(b, 1, n - 1)))

\* a non-negative IEEE 754 double m * 2^e: m has 53 bits, or is zero with e = 0
FloatZero == [m |-> <<>>, e |-> 0]

\* the double nearest to (n + x) * 2^e, ties to even, where 0 <= x < 1 and
\* x > 0 exactly if inexact; an inexact n has more than 54 bits
RoundToDouble(n, inexact, e) ==
    IF n = <<>> THEN FloatZero
    ELSE LET len == BigBitLength(n)
         IN  IF len <= 53
             THEN [m |-> BigShl(n, 53 - len), e |-> e - (53 - len)]
             ELSE LET s == len - 53
                      h == BigShr(n, s - 1)
                      t == BigShr(h.q, 1).q
                      up == BigOdd(h.q) /\ (h.lost \/ inexact \/ BigOdd(t))
                      m1 == IF up THEN BigAdd(t, <<1>>, 0) ELSE t
                  IN  IF BigBitLength(m1) > 53
                      THEN [m |-> BigShr(m1, 1).q, e |-> e + s + 1]
                      ELSE [m |-> m1, e |-> e + s]

\* the double nearest to n/d for integers n >= 0 and 0 < d <= Base: what
\* Python gives for n / d, and for float() of the decimal n/d
Float(n, d) ==
    LET dv == BigDivSmall(BigShl(BigFromInt(n), 75), d)
    IN  RoundToDouble(BigTrim(dv.q), dv.r # 0, -(75))

\* a * b of two floats
FloatMul(a, b) == RoundToDouble(BigMul(a.m, b.m), FALSE, a.e + b.e)

\* a < b of two floats
FloatLess(a, b) ==
    IF a.m = <<>> THEN b.m # <<>>
    ELSE IF b.m = <<>> THEN FALSE
    ELSE a.e < b.e \/ (a.e = b.e /\ BigLess(a.m, b.m))

\* math.floor of a float below 2^31
math_floor(a) ==
    IF a.e >= 0 THEN BigToInt(BigShl(a.m, a.e)) ELSE BigToInt(BigShr(a.m, -a.e).q)

-----------------------------------------------------------------------------
(* InferenceArguments, lines 36-217 *)

\* a decimal number as it is written on the command line, num/den
Rat(n, d) == [num |-> n, den |-> d]

\* the fields of type float
FloatFields == {"max_memory", "temperature", "top_p"}

\* the parser's conversion of the option strings: float() for a float field
parse_args(kw) ==
    [f \in DOMAIN kw |-> IF f \in FloatFields THEN Float(kw[f].num, kw[f].den) ELSE kw[f]]

\* the field defaults of the dataclass that the model reads (lines 75-148)
FieldDefaults ==
    [max_memory           |-> Float(10, 10),
     batch_size           |-> 8,
     min_length           |-> "None",
     max_new_tokens       |-> 100,
     no_early_stop        |-> FALSE,
     num_return_sequences |-> 1,
     num_beams            |-> 1,
     do_sample            |-> TRUE,
     temperature          |-> Float(10, 10),
     top_k                |-> 0,
     top_p                |-> Float(9, 10)]

\* the constraints section 4.1 of the specification lists; the code states none
ValidConfiguration(a) ==
    /\ a.batch_size > 0
    /\ a.num_beams >= 1
    /\ a.num_return_sequences >= 1
    /\ FloatLess(FloatZero, a.top_p) /\ ~FloatLess(Float(1, 1), a.top_p)
    /\ FloatLess(FloatZero, a.max_memory) /\ ~FloatLess(Float(1, 1), a.max_memory)

\* the field values a keyword dictionary kw yields
FieldValues(kw) ==
    [f \in DOMAIN FieldDefaults |-> IF f \in DOMAIN kw THEN kw[f] ELSE FieldDefaults[f]]

\* the generated __init__ of the dataclass: every field is the keyword given
\* for it or its default; there is no __post_init__ and no check of any value
InferenceArguments(kw) == Return(FieldValues(kw))

-----------------------------------------------------------------------------
(* LLM.set_max_memory, lines 244-260 *)

\* the key 'cpu' of the max_memory dictionary (line 255); the other keys are
\* the device indices 0..n_gpus-1
CPU == -1

\* f"{n}GiB"
GiB(n) == [qty |-> n, unit |-> "GiB"]

\* line 253: the share of device 0 within the fraction
FirstGpuShare == Float(6, 10)

\* line 248: total_memory / (1024*1024*1024), total_memory counted in MiB
TotalGiB(mib) == Float(mib, 1024)

NoPlan == [kind |-> "None", queried |-> FALSE]

\* the planner that plans whenever a fraction other than 1.0 is set
PlanForAnyDeviceCount(a, n, mib) ==
    IF a.max_memory # FloatZero /\ a.max_memory # Float(1, 1)
    THEN LET t == TotalGiB(mib)
         IN  [kind |-> "dict", queried |-> TRUE,
              dict |-> [i \in (0..(n - 1)) \cup {CPU} |->
                          IF i = CPU THEN GiB(400)
                          ELSE IF i > 0 THEN GiB(math_floor(FloatMul(t, a.max_memory)))
                          ELSE GiB(math_floor(FloatMul(FloatMul(t, a.max_memory), FirstGpuShare)))]]
    ELSE NoPlan

\* lines 245-260, given the arguments, the device count and device 0's total;
\* queried tells whether get_device_properties(0) was called (line 248)
set_max_memory(a, n, mib) ==
    IF a.max_memory # FloatZero /\ a.max_memory # Float(1, 1) /\ n > 1
    THEN LET t == TotalGiB(mib)
         IN  [kind |-> "dict", queried |-> TRUE,
              dict |-> [i \in (0..(n - 1)) \cup {CPU} |->
                          IF i = CPU THEN GiB(400)
                          ELSE IF i > 0 THEN GiB(math_floor(FloatMul(t, a.max_memory)))
                          ELSE GiB(math_floor(FloatMul(FloatMul(t, a.max_memory), FirstGpuShare)))]]
    ELSE NoPlan

-----------------------------------------------------------------------------
(* __main__ and LLM.__init__, lines 222-242 and 319-324 *)

Unset == [kind |-> "unset"]

\* device totals in MiB: small ones, and 18 GiB, an A100's 40536 MiB, 40 and 90 GiB
TotalMemories == {g * 1024 : g \in 1..MaxGiB} \cup {1536, 18432, 40536, 40960, 92160}

\* a command line that gives every modelled option, the floats as decimals
Keywords ==
    [batch_size           : {0, 8},
     num_beams            : 0..MaxReturn,
     num_return_sequences : 0..MaxReturn,
     top_p                : {Rat(9, 10), Rat(15, 10)},
     max_memory           : {Rat(n, 10) : n \in 0..MaxFracNum}]

\* a command line that gives none of them
NoKeywords == [f \in {} |-> 0]

GenIdle ==
    /\ g_pc = "idle"
    /\ inputs = <<>>
    /\ encoded_inputs = Unset
    /\ model_outputs = <<>>
    /\ calls = <<>>
    /\ g_ret = Unset

RsIdle ==
    /\ rs_pc = "idle"
    /\ rs_outputs = <<>>
    /\ rs_batch = 1
    /\ rs_ret = Unset

\* the process before its arguments are parsed, on a machine with some devices
Init ==
    /\ pc = "start"
    /\ cli = NoKeywords
    /\ args = Unset
    /\ n_gpus \in 0..MaxGpus
    /\ total_memory \in TotalMemories
    /\ max_memory = Unset
    /\ queried = FALSE
    /\ model = [loaded |-> FALSE]
    /\ tokenizer = [loaded |-> FALSE]
    /\ GenIdle
    /\ RsIdle

\* lines 321-322 with the keywords kw
Construct(kw) ==
    /\ pc = "start"
    /\ cli' = kw
    /\ args' = InferenceArguments(parse_args(kw)).value
    /\ pc' = "constructed"
    /\ UNCHANGED <<n_gpus, total_memory, max_memory, queried, model, tokenizer>>
    /\ UNCHANGED <<genVars, rsVars>>

ParseDefaults == Construct(NoKeywords)

ParseKeywords == \E kw \in Keywords : Construct(kw)

\* line 234: the argument max_memory=self.set_max_memory() is evaluated
SetMaxMemory ==
    /\ pc = "constructed"
    /\ LET r == set_max_memory(args, n_gpus, total_memory)
       IN  /\ max_memory' = r
           /\ queried' = r.queried
    /\ pc' = "planned"
    /\ UNCHANGED <<cli, args, n_gpus, total_memory, model, tokenizer>>
    /\ UNCHANGED <<genVars, rsVars>>

\* lines 229-237: the backend loads the model, or fails
FromPretrained ==
    /\ pc = "planned"
    /\ \E ok \in BOOLEAN :
          IF ok
          THEN /\ model' = [loaded |-> TRUE, max_memory |-> max_memory, with |-> args]
               /\ pc' = "model_loaded"
          ELSE /\ model' = model
               /\ pc' = "raised"
    /\ UNCHANGED <<cli, args, n_gpus, total_memory, max_memory, queried, tokenizer>>
    /\ UNCHANGED <<genVars, rsVars>>

\* line 242: the backend loads the tokenizer, or fails and no LLM is constructed
LoadTokenizer ==
    /\ pc = "model_loaded"
    /\ \E ok \in BOOLEAN :
          IF ok
          THEN /\ tokenizer' = [loaded |-> TRUE, padding_side |-> "left"]
               /\ pc' = "ready"
          ELSE /\ tokenizer' = tokenizer
               /\ pc' = "raised"
    /\ UNCHANGED <<cli, args, n_gpus, total_memory, max_memory, queried, model>>
    /\ UNCHANGED <<genVars, rsVars>>

Next ==
    \/ ParseDefaults
    \/ ParseKeywords
    \/ SetMaxMemory
    \/ FromPretrained
    \/ LoadTokenizer

Spec == Init /\ [][Next]_vars

-----------------------------------------------------------------------------
(* reshape_model_outputs called on its own *)

InitReshape ==
    /\ pc = "ready"
    /\ cli = NoKeywords
    /\ args = FieldValues(NoKeywords)
    /\ n_gpus = 1
    /\ total_memory = 40960
    /\ max_memory = NoPlan
    /\ queried = FALSE
    /\ model = [loaded |-> TRUE, max_memory |-> NoPlan, with |-> FieldValues(NoKeywords)]
    /\ tokenizer = [loaded |-> TRUE, padding_side |-> "left"]
    /\ GenIdle
    /\ rs_pc = "call"
    /\ rs_outputs \in SeqsUpTo(Strings, MaxOutputs)
    /\ rs_batch \in 0..MaxBatch
    /\ rs_ret = Unset

ReshapeCall ==
    /\ rs_pc = "call"
    /\ rs_ret' = reshape_model_outputs(rs_outputs, rs_batch)
    /\ rs_pc' = "done"
    /\ UNCHANGED <<rs_outputs, rs_batch>>
    /\ UNCHANGED <<initVars, genVars>>

NextReshape == ReshapeCall

SpecReshape == InitReshape /\ [][NextReshape]_vars

-----------------------------------------------------------------------------
(* LLM.generate_from_model, lines 262-292 *)

\* a row of token ids that generate returns, up to what it decodes to
Rows == {1, 2}

\* tokenizer.batch_decode(rows, skip_special_tokens=True), line 290
batch_decode(rows) == [i \in 1..Len(rows) |-> IF rows[i] = 1 THEN "a" ELSE "b"]

\* the batches a caller passes: one to MaxBatch input strings
InputBatches == {[i \in 1..b |-> "x"] : b \in 1..MaxBatch}

\* lines 270-279: the keyword arguments of self.model.generate
generate_kwargs(a) ==
    [max_new_tokens       |-> a.max_new_tokens,
     min_length           |-> a.min_length,
     num_beams            |-> a.num_beams,
     num_return_sequences |-> a.num_return_sequences,
     early_stopping       |-> ~a.no_early_stop,
     do_sample            |-> a.do_sample,
     temperature          |-> a.temperature,
     top_k                |-> a.top_k,
     top_p                |-> a.top_p]

\* the configured batch size taken for the batch size of the call
ConfiguredBatchSize(enc, a) == a.batch_size

\* line 284: encoded_inputs['input_ids'].shape[0]
cur_batch_size(enc, a) == enc.shape[1]

\* the command lines of the constructed LLMs the calls are made on
GenKeywords ==
    [batch_size           : {2, 8},
     num_return_sequences : 1..MaxReturn,
     no_early_stop        : BOOLEAN]

\* an LLM constructed on one device, ready for calls
InitGenerate ==
    /\ pc = "ready"
    /\ cli \in GenKeywords
    /\ args = FieldValues(parse_args(cli))
    /\ n_gpus = 1
    /\ total_memory = 40960
    /\ max_memory = NoPlan
    /\ queried = FALSE
    /\ model = [loaded |-> TRUE, max_memory |-> NoPlan, with |-> args]
    /\ tokenizer = [loaded |-> TRUE, padding_side |-> "left"]
    /\ GenIdle
    /\ RsIdle

\* a caller calls generate_from_model(batch); a call runs to its end first
CallGenerate ==
    /\ pc = "ready"
    /\ g_pc \in {"idle", "returned", "raised"}
    /\ \E batch \in InputBatches : inputs' = batch
    /\ g_pc' = "tokenize"
    /\ encoded_inputs' = Unset
    /\ model_outputs' = <<>>
    /\ calls' = <<>>
    /\ g_ret' = Unset
    /\ UNCHANGED <<initVars, rsVars>>

\* line 266: the tokenizer pads the batch to [batch_size, seq_len], or fails
Tokenize ==
    /\ g_pc = "tokenize"
    /\ calls' = Append(calls, [fn |-> "tokenizer", padding_side |-> tokenizer.padding_side])
    /\ \E ok \in BOOLEAN :
          IF ok
          THEN /\ encoded_inputs' = [shape |-> <<Len(inputs)>>]
               /\ g_pc' = "generate"
               /\ g_ret' = g_ret
          ELSE /\ encoded_inputs' = encoded_inputs
               /\ g_pc' = "raised"
               /\ g_ret' = Raise("BackendFailure", "tokenizer", <<>>)
    /\ UNCHANGED <<inputs, model_outputs>>
    /\ UNCHANGED <<initVars, rsVars>>

\* a generation step that answers a failure with another attempt
GenerateWithRetry ==
    /\ g_pc = "generate"
    /\ Len(calls) < 3
    /\ calls' = Append(calls, [fn |-> "generate", kwargs |-> generate_kwargs(args)])
    /\ \/ /\ g_pc' = "generate"
          /\ model_outputs' = model_outputs
          /\ g_ret' = g_ret
       \/ /\ \E rows \in SeqsUpTo(Rows, MaxOutputs) : model_outputs' = rows
          /\ g_pc' = "decode"
          /\ g_ret' = g_ret
    /\ UNCHANGED <<inputs, encoded_inputs>>
    /\ UNCHANGED <<initVars, rsVars>>

\* lines 269-280: the backend raises, which nothing catches, or returns some
\* number of rows
Generate ==
    /\ g_pc = "generate"
    /\ calls' = Append(calls, [fn |-> "generate", kwargs |-> generate_kwargs(args)])
    /\ \/ /\ g_pc' = "raised"
          /\ model_outputs' = model_outputs
          /\ g_ret' = Raise("BackendFailure", "generate", <<>>)
       \/ /\ \E rows \in SeqsUpTo(Rows, MaxOutputs) : model_outputs' = rows
          /\ g_pc' = "decode"
          /\ g_ret' = g_ret
    /\ UNCHANGED <<inputs, encoded_inputs>>
    /\ UNCHANGED <<initVars, rsVars>>

\* line 290: model_outputs becomes the list of decoded strings, or the
\* backend raises, which nothing catches
Decode ==
    /\ g_pc = "decode"
    /\ calls' = Append(calls, [fn |-> "batch_decode", skip_special_tokens |-> TRUE])
    /\ \E ok \in BOOLEAN :
          IF ok
          THEN /\ model_outputs' = batch_decode(model_outputs)
               /\ g_pc' = "reshape"
               /\ g_ret' = g_ret
          ELSE /\ model_outputs' = model_outputs
               /\ g_pc' = "raised"
               /\ g_ret' = Raise("BackendFailure", "batch_decode", <<>>)
    /\ UNCHANGED <<inputs, encoded_inputs>>
    /\ UNCHANGED <<initVars, rsVars>>

\* line 292: return self.reshape_model_outputs(model_outputs, cur_batch_size)
Reshape ==
    /\ g_pc = "reshape"
    /\ calls' = Append(calls, [fn |-> "reshape_model_outputs",
                               input_batch_size |-> cur_batch_size(encoded_inputs, args)])
    /\ LET r == reshape_model_outputs(model_outputs, cur_batch_size(encoded_inputs, args))
       IN  /\ g_ret' = r
           /\ g_pc' = IF r.kind = "return" THEN "returned" ELSE "raised"
    /\ UNCHANGED <<inputs, encoded_inputs, model_outputs>>
    /\ UNCHANGED <<initVars, rsVars>>

NextGenerate ==
    \/ CallGenerate
    \/ Tokenize
    \/ Generate
    \/ Decode
    \/ Reshape

SpecGenerate == InitGenerate /\ [][NextGenerate]_vars

-----------------------------------------------------------------------------
(* Properties of reshape_model_outputs, under SpecReshape *)

\* the stand-alone call has ended
Reshaped == rs_pc = "done"

\* C1: when the number of outputs M is a multiple of the batch size B >= 1 and
\* k = M/B >= 1, the reshaper returns B groups of k elements each, group i
\* holds outputs[i*k .. (i+1)*k - 1], and the groups concatenated give outputs.
C1_DivisibleReshapeRoundTrips ==
    (Reshaped /\ rs_batch >= 1 /\ Len(rs_outputs) % rs_batch = 0
              /\ Len(rs_outputs) \div rs_batch >= 1)
    => LET k == Len(rs_outputs) \div rs_batch
       IN  /\ rs_ret.kind = "return"
           /\ Len(rs_ret.value) = rs_batch
           /\ \A i \in 1..rs_batch :
                 /\ Len(rs_ret.value[i]) = k
                 /\ \A j \in 1..k : rs_ret.value[i][j] = rs_outputs[(i - 1) * k + j]
           /\ Flatten(rs_ret.value) = rs_outputs

\* six outputs that are not all alike, reshaped for three inputs
C1_Witness ==
    /\ Reshaped
    /\ rs_batch = 3
    /\ rs_outputs = <<"a", "b", "b", "a", "a", "b">>
    /\ rs_ret.kind = "return"

\* C2: when M is not a multiple of B >= 1 (0 < M < B included) the reshaper
\* raises ValueError and returns no grouping of any kind.
C2_IndivisibleReshapeRaises ==
    (Reshaped /\ rs_batch >= 1 /\ Len(rs_outputs) % rs_batch # 0)
    => /\ rs_ret.kind = "raise"
       /\ rs_ret.type = "ValueError"

\* five outputs for two inputs: three chunks are cut and the call raises
C2_Witness ==
    /\ Reshaped
    /\ rs_batch = 2
    /\ Len(rs_outputs) = 5
    /\ rs_ret.kind = "raise"
    /\ rs_ret.raised_by = "chunk_count"

\* fewer outputs than inputs: the call raises as well
C2_WitnessFewOutputs ==
    /\ Reshaped
    /\ rs_batch = 3
    /\ Len(rs_outputs) = 2
    /\ rs_ret.kind = "raise"

\* C8: every failure of the reshaper, for M >= 0 and B >= 1, is the ValueError
\* of one of its two checks and carries the expected and the actual count.
C8_FailureCarriesCounts ==
    (Reshaped /\ rs_batch >= 1 /\ rs_ret.kind = "raise")
    => /\ rs_ret.type = "ValueError"
       /\ rs_ret.raised_by \in {"chunk_count", "first_chunk"}
       /\ Len(rs_ret.counts) = 2

\* C10: whenever the number of chunks equals B, the first chunk has M div B
\* elements; the first-chunk check never raises; every return has
\* M = B * (M div B).
C10_FirstChunkCheckNeverRaises ==
    Reshaped
    => /\ rs_ret.kind = "raise" => rs_ret.raised_by # "first_chunk"
       /\ rs_ret.kind = "return" =>
             Len(rs_outputs) = rs_batch * (Len(rs_outputs) \div rs_batch)
       /\ (rs_batch >= 1 /\ Len(rs_outputs) \div rs_batch >= 1) =>
             LET k == Len(rs_outputs) \div rs_batch
                 packed == Chunks(rs_outputs, k)
             IN  Len(packed) = rs_batch => Len(packed[1]) = k

\* four outputs for two inputs: the chunk-count check passes
C10_Witness ==
    /\ Reshaped
    /\ rs_batch = 2
    /\ Len(rs_outputs) = 4
    /\ Len(Chunks(rs_outputs, 2)) = rs_batch
    /\ rs_ret.kind = "return"

-----------------------------------------------------------------------------
(* Properties of generate_from_model, under SpecGenerate *)

\* the order of the calls inside one call of generate_from_model
CallOrder == <<"tokenizer", "generate", "batch_decode", "reshape_model_outputs">>

\* C3: a call with B >= 1 inputs and num_return_sequences = r >= 1 whose
\* backend gives B*r decoded strings returns B groups (B the number of inputs
\* of the call, whatever args.batch_size is) of r strings, in the backend's order.
C3_GenerateReturnsGroupsPerInput ==
    (g_pc \in {"returned", "raised"} /\ Len(calls) = 4
       /\ Len(model_outputs) = Len(inputs) * args.num_return_sequences)
    => LET r == args.num_return_sequences
       IN  /\ g_pc = "returned"
           /\ g_ret.kind = "return"
           /\ Len(g_ret.value) = Len(inputs)
           /\ \A i \in 1..Len(inputs) :
                 /\ Len(g_ret.value[i]) = r
                 /\ \A j \in 1..r : g_ret.value[i][j] = model_outputs[(i - 1) * r + j]

\* three inputs, two sequences each, on an LLM configured for batches of 8
C3_Witness ==
    /\ g_pc = "returned"
    /\ Len(inputs) = 3
    /\ args.num_return_sequences = 2
    /\ args.batch_size = 8
    /\ model_outputs = <<"a", "b", "b", "b", "a", "a">>
    /\ g_ret.value = <<(<<"a", "b">>), (<<"b", "b">>), (<<"a", "a">>)>>

\* C9: a call runs tokenize, generate, decode, reshape in this order with one
\* generation call at most; a failed generation call ends the call with the
\* backend's failure, no further call, nothing decoded and no result; a call
\* ends with a grouping for every input or with a failure.
C9_OnePassInOrder ==
    /\ Len(calls) <= 4
    /\ \A i \in 1..Len(calls) : calls[i].fn = CallOrder[i]
    /\ g_pc = "returned" =>
          /\ Len(calls) = 4
          /\ g_ret.kind = "return"
          /\ Len(g_ret.value) = Len(inputs)
    /\ g_pc = "raised" => g_ret.kind = "raise"
    /\ (g_ret.kind = "raise" /\ g_ret.raised_by = "generate") =>
          /\ g_pc = "raised"
          /\ g_ret.type = "BackendFailure"
          /\ Len(calls) = 2
          /\ model_outputs = <<>>

\* the generation call of a two-input batch has failed
C9_Witness ==
    /\ g_pc = "raised"
    /\ Len(inputs) = 2
    /\ g_ret.raised_by = "generate"
    /\ Len(calls) = 2

-----------------------------------------------------------------------------
(* Properties of argument construction and LLM.__init__, under Spec *)

\* set_max_memory has returned
Planned == pc \in {"planned", "model_loaded", "raised", "ready"}

\* C4: with at most one device (none included) and any fraction, and with the
\* fraction 1.0 and any number of devices, set_max_memory returns None and
\* does not ask for the device's total memory.
C4_NoPlanForOneDeviceOrFullFraction ==
    (Planned /\ (n_gpus <= 1 \/ args.max_memory = Float(1, 1)))
    => /\ max_memory.kind = "None"
       /\ queried = FALSE

\* no device visible and a fraction of 0.5
C4_Witness ==
    /\ pc = "planned"
    /\ n_gpus = 0
    /\ args.max_memory = Float(5, 10)
    /\ max_memory.kind = "None"

\* three devices and the fraction 1.0
C4_WitnessFullFraction ==
    /\ pc = "planned"
    /\ n_gpus = 3
    /\ args.max_memory = Float(10, 10)
    /\ max_memory.kind = "None"

\* the command line gives a memory fraction f with 0 < f < 1
FractionBelowOne ==
    /\ "max_memory" \in DOMAIN cli
    /\ 0 < cli.max_memory.num
    /\ cli.max_memory.num < cli.max_memory.den

\* q = floor(t * f * s) in exact arithmetic, for t = mib/1024 GiB and the
\* decimals f and s, stated without a division
IsFloorOfProduct(q, mib, f, s) ==
    /\ q * (1024 * f.den * s.den) <= mib * f.num * s.num
    /\ mib * f.num * s.num < (q + 1) * (1024 * f.den * s.den)

\* C5: with N > 1 devices and 0 < f < 1 the plan has the keys 0..N-1 and the
\* host key, device 0 gets floor(T*f*0.6), every other device floor(T*f), the
\* host key the fixed 400 GiB; N=2, f=0.8, T=40 gives 19 and 32.
C5_PlanBudgets ==
    (Planned /\ n_gpus > 1 /\ FractionBelowOne)
    => /\ max_memory.kind = "dict"
       /\ DOMAIN max_memory.dict = (0..(n_gpus - 1)) \cup {CPU}
       /\ \A i \in DOMAIN max_memory.dict : max_memory.dict[i].unit = "GiB"
       /\ IsFloorOfProduct(max_memory.dict[0].qty, total_memory, cli.max_memory, Rat(6, 10))
       /\ \A i \in 1..(n_gpus - 1) :
             IsFloorOfProduct(max_memory.dict[i].qty, total_memory, cli.max_memory, Rat(1, 1))
       /\ max_memory.dict[CPU].qty = 400
       /\ (n_gpus = 2 /\ cli.max_memory = Rat(8, 10) /\ total_memory = 40 * 1024) =>
             (max_memory.dict[0].qty = 19 /\ max_memory.dict[1].qty = 32)

\* C6: in every plan made for a fraction in (0,1], device 0 gets strictly
\* less than each of the devices 1..N-1.
C6_FirstDeviceGetsLess ==
    (Planned /\ max_memory.kind = "dict" /\ FloatLess(FloatZero, args.max_memory)
             /\ ~FloatLess(Float(1, 1), args.max_memory))
    => \A i \in 1..(n_gpus - 1) : max_memory.dict[0].qty < max_memory.dict[i].qty

\* C7: a configuration with batch size <= 0, beams < 1, return sequences < 1,
\* top-p outside (0,1] or memory fraction outside (0,1] is never constructed,
\* so the planner and the model load are never reached with such a value.
C7_InvalidValuesRejected ==
    pc \in {"constructed", "planned", "model_loaded", "raised", "ready"}
    => ValidConfiguration(args)

=============================================================================
